---------------------------- MODULE Spec2Model ----------------------------
(***************************************************************************)
(* Model of the ASiC-S container of libdigidocpp (src/src/ASiC_S.cpp):     *)
(* the loader (constructor ASiC_S(path)), addDataFileChecks, sign, save    *)
(* and the archive-manifest chaining they implement.                       *)
(*                                                                         *)
(* A ZIP archive is a sequence of entries [name, body].  A body is one of  *)
(*   [k |-> "bin",   v]            opaque bytes (a data file, the mimetype)*)
(*   [k |-> "tst",   imprint]      a timestamp token over a digest value   *)
(*   [k |-> "xades", n]            a signatures document with n Signature  *)
(*                                 elements                                *)
(*   [k |-> "mfs",   sig, refs]    an ASiCManifest document                *)
(* The same bodies are the `data` of the Metadata Store entries.           *)
(***************************************************************************)
EXTENDS Integers, Sequences, FiniteSets, TLC

VARIABLES
    pc,          \* "none" | "loading" | "ready" | "failed" | "diverged"
    z,           \* the archive being read by the loader (z.list() order)
    pos,         \* index of the entry the loader's for-loop is at
    dataFiles,   \* ASiContainer::dataFiles()
    signatures,  \* ASiContainer::signatures()
    metadata,    \* ASiC_S::metadata, vector<Data>
    op,          \* the last operation and the error it threw ("" = none)
    pre,         \* the container as it was before the last operation
    written,     \* the entries the last save handed to ZipSerialize::addFile
    src,         \* the in-memory container a reloaded archive was saved from
    fresh,       \* TRUE for a container made by createInternal
    probe        \* a call of isContainerSimpleFormat: its path and its result

vars == <<pc, z, pos, dataFiles, signatures, metadata, op, pre, written, src,
          fresh, probe>>

\* ------------------------------------------------------------------ bounds
MaxEntries == 3      \* longest crafted archive handed to the loader
MaxSigs == 4         \* sign is not called on a chain of this length
MaxProbeEntries == 2 \* longest archive handed to isContainerSimpleFormat

\* --------------------------------------------------------------- constants
MIMETYPE_ASIC_S == "application/vnd.etsi.asic-s+zip"
ASIC_TST_PROFILE == "TimeStampToken"
XADES_LTA_PROFILE == "time-stamp-archive"
TST_NAME == "META-INF/timestamp.tst"
SIGNATURES_NAME == "META-INF/signatures.xml"
MANIFEST_NAME == "META-INF/ASiCArchiveManifest.xml"
TST_MIME == "application/vnd.etsi.timestamp-token"
XML_MIME == "text/xml"
OCTET_MIME == "application/octet-stream"

ErrDuplicateSignature == "DuplicateSignatureEntryPoint"
ErrDuplicateDataFile == "DuplicateDataFile"
ErrSubfolder == "UnsupportedSubfolder"
ErrMissingData == "MissingDataObject"
ErrMissingSignature == "MissingSignature"
ErrProfile == "UnsupportedProfile"
ErrSchema == "SchemaValidationFailure"
ErrZip == "ZipEntryNotFound"

\* ----------------------------------------------------------------- bodies
Bin(v) == [k |-> "bin", v |-> v]
Tok(imprint) == [k |-> "tst", imprint |-> imprint]
XAdES(n) == [k |-> "xades", n |-> n]
Mfs(sig, refs) == [k |-> "mfs", sig |-> sig, refs |-> refs]
Text(s) == [k |-> "txt", s |-> s]

\* ------------------------------------------------------------ string tools
starts_with(str, needle) ==
    Len(str) >= Len(needle) /\ SubSeq(str, 1, Len(needle)) = needle

RECURSIVE LastSlash(_, _)
LastSlash(s, i) ==
    IF i = 0 THEN 0
    ELSE IF SubSeq(s, i, i) = "/" THEN i ELSE LastSlash(s, i - 1)

\* util::File::directory: the path up to and including its last '/'
Directory(file) == SubSeq(file, 1, LastSlash(file, Len(file)))

\* util::File::toUriPath / fromUriPath: percent-encoding of a path
toUriPath(name) == IF name = "a b.txt" THEN "a%20b.txt" ELSE name
fromUriPath(uri) == IF uri = "a%20b.txt" THEN "a b.txt" ELSE uri

Digit(d) == <<"0", "1", "2", "3", "4", "5", "6", "7", "8", "9">>[d + 1]

RECURSIVE Decimal(_)
Decimal(i) == IF i < 10 THEN Digit(i) ELSE Decimal(i \div 10) \o Digit(i % 10)

\* printf "%03zu": decimal, left-padded with zeros to at least 3 digits
Format03(i) ==
    IF i < 10 THEN "00" \o Decimal(i)
    ELSE IF i < 100 THEN "0" \o Decimal(i)
    ELSE Decimal(i)

TstNameFormat(i) == "META-INF/timestamp" \o Format03(i) \o ".tst"
MfsNameFormat(i) == "META-INF/ASiCArchiveManifest" \o Format03(i) \o ".xml"

\* ----------------------------------------------------------------- digest
RECURSIVE HashRefs(_, _, _)
HashRefs(refs, i, h) ==
    IF i > Len(refs) THEN h
    ELSE HashRefs(refs, i + 1,
                  (h * 31 + refs[i].digest.value * 7 + Len(refs[i].uri)
                     + (IF refs[i].root THEN 1 ELSE 0)) % 251)

Hash(data) ==
    CASE data.k = "bin" -> (data.v * 31 + 1) % 251
      [] data.k = "tst" -> (data.imprint * 17 + 2) % 251
      [] data.k = "xades" -> (data.n * 13 + 3) % 251
      [] data.k = "mfs" -> HashRefs(data.refs, 1, (5 + Len(data.sig.uri)) % 251)

\* Data::digest, DataFilePrivate::digest: default algorithm over the bytes
Digest(data) == [uri |-> "sha256", value |-> Hash(data)]

\* ------------------------------------------------------------- signatures
SignatureTST(file, token) == [type |-> "TST", file |-> file, token |-> token]
SignatureXAdES_LTA(i) == [type |-> "XAdES", file |-> SIGNATURES_NAME, token |-> XAdES(i)]

Profile(sig) == IF sig.type = "TST" THEN ASIC_TST_PROFILE ELSE XADES_LTA_PROFILE

Data(name, mime, data) == [name |-> name, mime |-> mime, data |-> data, root |-> FALSE]

Names(md) == {md[i].name : i \in 1..Len(md)}

\* ---------------------------------------------------------------- archive
ZHas(zz, name) == \E i \in 1..Len(zz) : zz[i].name = name

ZExtract(zz, name) ==
    zz[CHOOSE i \in 1..Len(zz) :
          zz[i].name = name /\ \A j \in 1..(i - 1) : zz[j].name # name].body

Entry(name, body) == [name |-> name, body |-> body]

Ref(uri, mime, root, data) ==
    [uri |-> uri, mime |-> mime, root |-> root, digest |-> Digest(data)]

SigRef(uri) == [uri |-> uri, mime |-> TST_MIME]

PoolManifest001 ==
    Mfs(SigRef(TstNameFormat(1)), <<Ref("a.txt", OCTET_MIME, FALSE, Bin(1))>>)

Pool ==
    { Entry("mimetype", Bin(0)),
      Entry("a.txt", Bin(1)),
      Entry("b.txt", Bin(2)),
      Entry("docs/readme.txt", Bin(3)),
      Entry("META-INF/manifest.xml", Bin(4)),
      Entry("META-INF/sub/x.bin", Bin(6)),
      Entry(TST_NAME, Tok(1)),
      Entry(SIGNATURES_NAME, XAdES(0)),
      Entry(SIGNATURES_NAME, XAdES(1)),
      Entry(SIGNATURES_NAME, XAdES(2)),
      Entry(MANIFEST_NAME, PoolManifest001),
      Entry(MANIFEST_NAME,
            Mfs(SigRef(TstNameFormat(2)),
                <<Ref("a.txt", OCTET_MIME, FALSE, Bin(1)),
                  Ref(MfsNameFormat(1), XML_MIME, TRUE, PoolManifest001)>>)),
      Entry(MANIFEST_NAME,
            Mfs(SigRef(TstNameFormat(1)),
                <<Ref(MANIFEST_NAME, XML_MIME, TRUE, Bin(0))>>)),
      Entry(MfsNameFormat(1), PoolManifest001),
      Entry(TstNameFormat(1), Tok(2)),
      Entry(TstNameFormat(2), Tok(3)) }

DistinctNames(zz) ==
    \A i, j \in 1..Len(zz) : i # j => zz[i].name # zz[j].name

\* the archives the loader is opened on: every ordering of up to MaxEntries
\* pool entries with pairwise distinct names
Archives ==
    UNION { {zz \in [1..n -> Pool] : DistinctNames(zz)} : n \in 0..MaxEntries }

NoContainer == [md |-> <<>>, sigs |-> <<>>, dfs |-> <<>>]
Snapshot == [md |-> metadata, sigs |-> signatures, dfs |-> dataFiles]
NoSource == [valid |-> FALSE, fresh |-> FALSE, md |-> <<>>, sigs |-> <<>>, dfs |-> <<>>]
NoProbe == [ext |-> "", zip |-> FALSE, result |-> "none"]
Op(name, err) == [name |-> name, arg |-> "", err |-> err]
SignOp(profile, err) == [name |-> "sign", arg |-> profile, err |-> err]

Init ==
    /\ pc = "none"
    /\ z = <<>>
    /\ pos = 0
    /\ dataFiles = <<>>
    /\ signatures = <<>>
    /\ metadata = <<>>
    /\ op = Op("none", "")
    /\ pre = NoContainer
    /\ written = <<>>
    /\ src = NoSource
    /\ fresh = FALSE
    /\ probe = NoProbe

\* ASiC_S::ASiC_S() through createInternal: an empty container
Create ==
    /\ pc = "none"
    /\ pc' = "ready"
    /\ fresh' = TRUE
    /\ op' = Op("create", "")
    /\ UNCHANGED <<z, pos, dataFiles, signatures, metadata, pre, written, src, probe>>

\* ASiC_S::ASiC_S(path), line 63: the archive is opened, the loop starts
Open ==
    /\ pc = "none"
    /\ \E a \in Archives : z' = a
    /\ pos' = 1
    /\ pc' = "loading"
    /\ op' = Op("load", "")
    /\ UNCHANGED <<dataFiles, signatures, metadata, pre, written, src, fresh, probe>>

\* ------------------------------------------------------------- the loader
Cur == z[pos]

InLoop == pc = "loading" /\ pos <= Len(z)

LoadFail(e) ==
    /\ pc' = "failed"
    /\ op' = Op("load", e)
    /\ pre' = Snapshot
    /\ UNCHANGED <<z, pos, dataFiles, signatures, metadata, written, src, fresh, probe>>

LoadAdvance ==
    /\ pos' = pos + 1
    /\ pre' = Snapshot
    /\ UNCHANGED <<pc, z, op, written, src, fresh, probe>>

\* lines 70-71
LoadMimetype ==
    /\ InLoop /\ Cur.name = "mimetype"
    /\ LoadAdvance
    /\ UNCHANGED <<dataFiles, signatures, metadata>>

\* LoadTimestamp without line 78: the token is not recorded in the store
LoadTimestampNoMetadata ==
    /\ InLoop /\ Cur.name = TST_NAME
    /\ IF signatures # <<>>
       THEN LoadFail(ErrDuplicateSignature)
       ELSE LET tst == ZExtract(z, Cur.name) IN
            /\ signatures' = Append(signatures, SignatureTST("", tst))
            /\ LoadAdvance
            /\ UNCHANGED <<dataFiles, metadata>>

\* lines 72-79
LoadTimestamp ==
    /\ InLoop /\ Cur.name = TST_NAME
    /\ IF signatures # <<>>
       THEN LoadFail(ErrDuplicateSignature)
       ELSE LET tst == ZExtract(z, Cur.name) IN
            /\ signatures' = Append(signatures, SignatureTST("", tst))
            /\ metadata' = Append(metadata, Data(Cur.name, TST_MIME, tst))
            /\ LoadAdvance
            /\ UNCHANGED dataFiles

\* lines 80-88
LoadSignaturesXml ==
    /\ InLoop /\ Cur.name = SIGNATURES_NAME
    /\ IF signatures # <<>>
       THEN LoadFail(ErrDuplicateSignature)
       ELSE LET doc == ZExtract(z, Cur.name) IN
            /\ signatures' = signatures \o [i \in 1..doc.n |-> SignatureXAdES_LTA(i)]
            /\ LoadAdvance
            /\ UNCHANGED <<dataFiles, metadata>>

AddResult(err, sigs, md) == [err |-> err, sigs |-> sigs, md |-> md]

RECURSIVE add(_, _, _, _)
RECURSIVE addRootfiles(_, _, _, _, _)

\* add with the manifest's own signature and entries recorded before the
\* Rootfile references are resolved
addPreOrder(zz, file, mime, stack) ==
    IF file \in stack THEN AddResult("Diverge", <<>>, <<>>)
    ELSE IF ~ZHas(zz, file) THEN AddResult(ErrZip, <<>>, <<>>)
    ELSE LET doc == ZExtract(zz, file) IN
         IF doc.k # "mfs" THEN AddResult(ErrSchema, <<>>, <<>>)
         ELSE LET inner == addRootfiles(zz, doc.refs, 1, stack \cup {file},
                                        AddResult("", <<>>, <<>>))
                  uri == fromUriPath(doc.sig.uri)
              IN IF inner.err # "" THEN inner
                 ELSE IF ~ZHas(zz, uri) THEN [inner EXCEPT !.err = ErrZip]
                 ELSE LET tst == ZExtract(zz, uri) IN
                      AddResult("",
                                <<SignatureTST(file, tst)>> \o inner.sigs,
                                <<Data(file, mime, doc),
                                  Data(uri, doc.sig.mime, tst)>> \o inner.md)

\* lines 91-108, the closure `add`.  stack is the set of manifests whose
\* resolution is in progress: meeting one of them again repeats the same
\* call with the same arguments, so the recursion never returns.
add(zz, file, mime, stack) ==
    IF file \in stack THEN AddResult("Diverge", <<>>, <<>>)
    ELSE IF ~ZHas(zz, file) THEN AddResult(ErrZip, <<>>, <<>>)
    ELSE LET doc == ZExtract(zz, file) IN
         IF doc.k # "mfs" THEN AddResult(ErrSchema, <<>>, <<>>)
         ELSE LET inner == addRootfiles(zz, doc.refs, 1, stack \cup {file},
                                        AddResult("", <<>>, <<>>))
                  uri == fromUriPath(doc.sig.uri)
              IN IF inner.err # "" THEN inner
                 ELSE IF ~ZHas(zz, uri) THEN [inner EXCEPT !.err = ErrZip]
                 ELSE LET tst == ZExtract(zz, uri) IN
                      AddResult("",
                                Append(inner.sigs, SignatureTST(file, tst)),
                                inner.md \o <<Data(file, mime, doc),
                                              Data(uri, doc.sig.mime, tst)>>)

\* lines 96-100: the Rootfile="true" references, in document order
addRootfiles(zz, refs, i, stack, acc) ==
    IF i > Len(refs) \/ acc.err # "" THEN acc
    ELSE IF refs[i].root
         THEN LET r == add(zz, fromUriPath(refs[i].uri), refs[i].mime, stack) IN
              addRootfiles(zz, refs, i + 1, stack,
                           AddResult(r.err, acc.sigs \o r.sigs, acc.md \o r.md))
         ELSE addRootfiles(zz, refs, i + 1, stack, acc)

\* lines 91-109: the closure is built and called on the entry
ResolveManifest ==
    /\ LET r == add(z, Cur.name, XML_MIME, {}) IN
       IF r.err = "Diverge"
       THEN /\ pc' = "diverged"
            /\ pre' = Snapshot
            /\ UNCHANGED <<z, pos, dataFiles, signatures, metadata, op,
                           written, src, fresh, probe>>
       ELSE /\ signatures' = signatures \o r.sigs
            /\ metadata' = metadata \o r.md
            /\ UNCHANGED dataFiles
            /\ IF r.err # ""
               THEN /\ pc' = "failed"
                    /\ op' = Op("load", r.err)
                    /\ pre' = Snapshot
                    /\ UNCHANGED <<z, pos, written, src, fresh, probe>>
               ELSE LoadAdvance

\* LoadManifest with the duplicate check of the two other entry points
LoadManifestChecked ==
    /\ InLoop /\ Cur.name = MANIFEST_NAME
    /\ IF signatures # <<>> THEN LoadFail(ErrDuplicateSignature) ELSE ResolveManifest

\* lines 89-110: no check of signatures() precedes the resolution
LoadManifest ==
    /\ InLoop /\ Cur.name = MANIFEST_NAME
    /\ ResolveManifest

SignatureEntry(name) == name \in {TST_NAME, SIGNATURES_NAME, MANIFEST_NAME}

\* lines 111-112
LoadMetaInfOther ==
    /\ InLoop /\ Cur.name # "mimetype" /\ ~SignatureEntry(Cur.name)
    /\ starts_with(Cur.name, "META-INF/")
    /\ LoadAdvance
    /\ UNCHANGED <<dataFiles, signatures, metadata>>

DataEntry(name) ==
    /\ name # "mimetype" /\ ~SignatureEntry(name)
    /\ ~starts_with(name, "META-INF/")

InSubfolder(name) == Directory(name) \notin {"", "/", "./"}

\* LoadSubfolder with the test of line 116 made before that of lines 113-114
LoadSubfolderAfterDuplicate ==
    /\ InLoop /\ DataEntry(Cur.name) /\ InSubfolder(Cur.name)
    /\ IF dataFiles # <<>>
       THEN LoadFail(ErrDuplicateDataFile)
       ELSE LoadFail(ErrSubfolder)

\* lines 113-115
LoadSubfolder ==
    /\ InLoop /\ DataEntry(Cur.name) /\ InSubfolder(Cur.name)
    /\ LoadFail(ErrSubfolder)

\* lines 116-117
LoadDuplicateData ==
    /\ InLoop /\ DataEntry(Cur.name) /\ ~InSubfolder(Cur.name)
    /\ dataFiles # <<>>
    /\ LoadFail(ErrDuplicateDataFile)

DataFile(name, mime, data) == [name |-> name, mime |-> mime, data |-> data]

\* LoadData without the check of lines 116-117
LoadDataUnchecked ==
    /\ InLoop /\ DataEntry(Cur.name) /\ ~InSubfolder(Cur.name)
    /\ dataFiles' = Append(dataFiles, DataFile(Cur.name, OCTET_MIME, ZExtract(z, Cur.name)))
    /\ LoadAdvance
    /\ UNCHANGED <<signatures, metadata>>

\* lines 118-119
LoadData ==
    /\ InLoop /\ DataEntry(Cur.name) /\ ~InSubfolder(Cur.name)
    /\ dataFiles = <<>>
    /\ dataFiles' = Append(dataFiles, DataFile(Cur.name, OCTET_MIME, ZExtract(z, Cur.name)))
    /\ LoadAdvance
    /\ UNCHANGED <<signatures, metadata>>

\* LoadFinish with the two checks in the other order
LoadFinishSwapped ==
    /\ pc = "loading" /\ pos > Len(z)
    /\ IF signatures = <<>> THEN LoadFail(ErrMissingSignature)
       ELSE IF dataFiles = <<>> THEN LoadFail(ErrMissingData)
       ELSE /\ pc' = "ready"
            /\ pre' = Snapshot
            /\ UNCHANGED <<z, pos, dataFiles, signatures, metadata, op,
                           written, src, fresh, probe>>

\* lines 122-125
LoadFinish ==
    /\ pc = "loading" /\ pos > Len(z)
    /\ IF dataFiles = <<>> THEN LoadFail(ErrMissingData)
       ELSE IF signatures = <<>> THEN LoadFail(ErrMissingSignature)
       ELSE /\ pc' = "ready"
            /\ pre' = Snapshot
            /\ UNCHANGED <<z, pos, dataFiles, signatures, metadata, op,
                           written, src, fresh, probe>>

\* -------------------------------------------------------------- addDataFile
Return(o) ==
    /\ op' = o
    /\ pre' = Snapshot
    /\ written' = <<>>
    /\ UNCHANGED <<pc, z, pos, dataFiles, signatures, metadata, src, fresh, probe>>

\* documents whose file name and media type pass the inherited
\* ASiContainer::addDataFileChecks called on line 130
NewFiles == {DataFile("a.txt", OCTET_MIME, Bin(1)), DataFile("a b.txt", OCTET_MIME, Bin(5))}

\* addDataFile without the check of lines 131-132
AddDataFileUnchecked ==
    /\ pc = "ready"
    /\ \E f \in NewFiles : dataFiles' = Append(dataFiles, f)
    /\ op' = Op("addDataFile", "")
    /\ pre' = Snapshot
    /\ written' = <<>>
    /\ UNCHANGED <<pc, z, pos, signatures, metadata, src, fresh, probe>>

\* ASiContainer::addDataFile: addDataFileChecks (lines 128-133), and when
\* it passes the document is stored
AddDataFile ==
    /\ pc = "ready"
    /\ \E f \in NewFiles :
          IF dataFiles # <<>>
          THEN Return(Op("addDataFile", ErrDuplicateDataFile))
          ELSE /\ dataFiles' = Append(dataFiles, f)
               /\ op' = Op("addDataFile", "")
               /\ pre' = Snapshot
               /\ written' = <<>>
               /\ UNCHANGED <<pc, z, pos, signatures, metadata, src, fresh, probe>>

\* --------------------------------------------------------------------- sign
Profiles == {ASIC_TST_PROFILE, XADES_LTA_PROFILE}

\* lines 186-191
SignFirst(profile) ==
    /\ dataFiles # <<>>
    /\ LET token == Tok(Hash(dataFiles[1].data)) IN
       /\ metadata' = Append(metadata, Data(TST_NAME, TST_MIME, token))
       /\ signatures' = Append(signatures, SignatureTST("", token))
    /\ op' = SignOp(profile, "")
    /\ pre' = Snapshot
    /\ written' = <<>>
    /\ UNCHANGED <<pc, z, pos, dataFiles, src, fresh, probe>>

\* ProbeTst without the loop: the first candidate is taken as it is
ProbeTstFirst(md, tstName, i) == tstName

RECURSIVE ProbeTst(_, _, _)
\* lines 193-196
ProbeTst(md, tstName, i) ==
    IF tstName \in Names(md) THEN ProbeTst(md, TstNameFormat(i + 1), i + 1)
    ELSE tstName

RECURSIVE ProbeMfs(_, _, _)
\* lines 225-228
ProbeMfs(md, mfsName, i) ==
    IF mfsName \in Names(md) THEN ProbeMfs(md, MfsNameFormat(i + 1), i + 1)
    ELSE mfsName

\* lines 203-215
addRef(name, mime, root, digest) ==
    [uri |-> toUriPath(name), mime |-> mime, root |-> root, digest |-> digest]

\* Freeze setting the root flag of every entry it visits
FreezeRootAll(md, i) ==
    IF md[i].name = MANIFEST_NAME
    THEN [md EXCEPT ![i].name = ProbeMfs(md, MfsNameFormat(1), 0), ![i].root = TRUE]
    ELSE [md EXCEPT ![i].root = TRUE]

\* Freeze without line 230
FreezeNoRoot(md, i) ==
    IF md[i].name = MANIFEST_NAME
    THEN [md EXCEPT ![i].name = ProbeMfs(md, MfsNameFormat(1), 0)]
    ELSE md

\* lines 223-231
Freeze(md, i) ==
    IF md[i].name = MANIFEST_NAME
    THEN [md EXCEPT ![i].name = ProbeMfs(md, MfsNameFormat(1), 0), ![i].root = TRUE]
    ELSE md

RECURSIVE SignLoopStale(_, _, _)
\* SignLoop with the reference added before the entry is renamed
SignLoopStale(md, i, refs) ==
    IF i > Len(md) THEN [md |-> md, refs |-> refs]
    ELSE SignLoopStale(Freeze(md, i), i + 1,
                       Append(refs, addRef(md[i].name, md[i].mime, md[i].root,
                                           Digest(md[i].data))))

RECURSIVE SignLoop(_, _, _)
\* lines 221-233
SignLoop(md, i, refs) ==
    IF i > Len(md) THEN [md |-> md, refs |-> refs]
    ELSE LET md2 == Freeze(md, i) IN
         SignLoop(md2, i + 1,
                  Append(refs, addRef(md2[i].name, md2[i].mime, md2[i].root,
                                      Digest(md2[i].data))))

\* lines 193-244
SignChain(profile) ==
    /\ dataFiles # <<>>
    /\ Len(signatures) < MaxSigs
    /\ LET tstName == ProbeTst(metadata, TstNameFormat(1), 1)
           file == dataFiles[1]
           loop == SignLoop(metadata, 1,
                            <<addRef(file.name, file.mime, FALSE, Digest(file.data))>>)
           doc == Mfs([uri |-> tstName, mime |-> TST_MIME], loop.refs)
           token == Tok(Hash(doc))
       IN /\ metadata' = loop.md \o <<Data(MANIFEST_NAME, XML_MIME, doc),
                                      Data(tstName, TST_MIME, token)>>
          /\ signatures' = Append(signatures, SignatureTST(MANIFEST_NAME, token))
    /\ op' = SignOp(profile, "")
    /\ pre' = Snapshot
    /\ written' = <<>>
    /\ UNCHANGED <<pc, z, pos, dataFiles, src, fresh, probe>>

\* Sign without the profile gate of lines 184-185
SignUngated ==
    /\ pc = "ready"
    /\ \E profile \in Profiles :
          IF signatures = <<>> THEN SignFirst(profile) ELSE SignChain(profile)

\* lines 182-245
Sign ==
    /\ pc = "ready"
    /\ \E profile \in Profiles :
          IF profile # ASIC_TST_PROFILE
          THEN Return(SignOp(profile, ErrProfile))
          ELSE IF signatures = <<>> THEN SignFirst(profile) ELSE SignChain(profile)

\* --------------------------------------------------------------------- save
\* Save testing the newest signature, list.back(), instead of list.front()
SaveBack ==
    /\ pc = "ready"
    /\ IF signatures = <<>>
       THEN Return(Op("save", ""))
       ELSE IF Profile(signatures[Len(signatures)]) # ASIC_TST_PROFILE
       THEN Return(Op("save", ErrProfile))
       ELSE /\ written' = [i \in 1..Len(metadata) |->
                              Entry(metadata[i].name, metadata[i].data)]
            /\ op' = Op("save", "")
            /\ pre' = Snapshot
            /\ UNCHANGED <<pc, z, pos, dataFiles, signatures, metadata, src, fresh, probe>>

\* lines 171-180
Save ==
    /\ pc = "ready"
    /\ IF signatures = <<>>
       THEN Return(Op("save", ""))
       ELSE IF Profile(Head(signatures)) # ASIC_TST_PROFILE
       THEN Return(Op("save", ErrProfile))
       ELSE /\ written' = [i \in 1..Len(metadata) |->
                              Entry(metadata[i].name, metadata[i].data)]
            /\ op' = Op("save", "")
            /\ pre' = Snapshot
            /\ UNCHANGED <<pc, z, pos, dataFiles, signatures, metadata, src, fresh, probe>>

\* ASiContainer::save: mimetype, the data file, then what save(s) wrote
SavedArchive ==
    <<Entry("mimetype", Bin(0))>>
      \o [i \in 1..Len(dataFiles) |-> Entry(dataFiles[i].name, dataFiles[i].data)]
      \o written

\* the archive written by the last save is opened with ASiC_S(path)
Reopen ==
    /\ pc = "ready" /\ op = Op("save", "")
    /\ z' = SavedArchive
    /\ pos' = 1
    /\ pc' = "loading"
    /\ op' = Op("load", "")
    /\ src' = [valid |-> TRUE, fresh |-> fresh, md |-> metadata,
               sigs |-> signatures, dfs |-> dataFiles]
    /\ dataFiles' = <<>>
    /\ signatures' = <<>>
    /\ metadata' = <<>>
    /\ pre' = NoContainer
    /\ written' = <<>>
    /\ fresh' = FALSE
    /\ UNCHANGED probe

\* ------------------------------------------------------------------ claims
Max(a, b) == IF a >= b THEN a ELSE b

ZIndex(zz, name) == CHOOSE i \in 1..Len(zz) : zz[i].name = name

Loading == op.name = "load" /\ pc \in {"loading", "ready", "failed"}

\* the loader failed on the entry at pos (and not in the final checks)
FailedAtEntry == op.name = "load" /\ pc = "failed" /\ pos <= Len(z)

SignedCaseB == op.name = "sign" /\ op.err = "" /\ pre.sigs # <<>>

\* C1: a load of an archive that holds both META-INF/timestamp.tst and
\* META-INF/signatures.xml never gets past the second of the two, and when
\* it stops on it the error is the duplicate-signature-entry-point error,
\* in either order and for any number of Signature elements.
C1_BothEntryPointsRejected ==
    (Loading /\ ZHas(z, TST_NAME) /\ ZHas(z, SIGNATURES_NAME)) =>
        LET second == Max(ZIndex(z, TST_NAME), ZIndex(z, SIGNATURES_NAME)) IN
        /\ pos <= second
        /\ (pc = "failed" /\ pos = second) => op.err = ErrDuplicateSignature

\* C2 (as stated): when the loader reaches META-INF/ASiCArchiveManifest.xml
\* with a non-empty Signature Chain, the load fails with the
\* duplicate-signature-entry-point error.
C2_ManifestDuplicateChecked ==
    [][(InLoop /\ Cur.name = MANIFEST_NAME /\ signatures # <<>>)
          => (pc' = "failed" /\ op'.err = ErrDuplicateSignature)]_vars

\* C2 (amended): reaching META-INF/ASiCArchiveManifest.xml with a non-empty
\* Signature Chain never raises the duplicate-signature-entry-point error;
\* the chain is kept and the signatures the manifest resolves to are
\* appended to it.  The duplicate error is raised only on
\* META-INF/timestamp.tst and META-INF/signatures.xml.
C2_ManifestExtendsChain ==
    [][/\ (InLoop /\ Cur.name = MANIFEST_NAME /\ signatures # <<>>)
            => /\ op'.err # ErrDuplicateSignature
               /\ Len(signatures') >= Len(signatures)
               /\ SubSeq(signatures', 1, Len(signatures)) = signatures
               /\ pc' = "loading" => Len(signatures') > Len(signatures)
       /\ (op'.name = "load" /\ op'.err = ErrDuplicateSignature)
            => z'[pos'].name \in {TST_NAME, SIGNATURES_NAME}]_vars

\* a manifest entry has just been resolved on top of an earlier signature
C2_Witness ==
    /\ op.name = "load" /\ pc = "loading" /\ pos > 1
    /\ z[pos - 1].name = MANIFEST_NAME
    /\ pre.sigs # <<>>
    /\ Len(signatures) > Len(pre.sigs)

TopLevelData(zz, n) ==
    {i \in 1..n : i <= Len(zz) /\ DataEntry(zz[i].name) /\ ~InSubfolder(zz[i].name)}

\* C3: at most one DataFile in every state; the loader never gets past a
\* second top-level data entry and stops on it with the duplicate-data-file
\* error; addDataFile on a container that has a DataFile fails with the
\* duplicate-data-file error and adds nothing.
C3_AtMostOneDataFile ==
    /\ Len(dataFiles) <= 1
    /\ Loading => Cardinality(TopLevelData(z, pos - 1)) <= 1
    /\ (FailedAtEntry /\ TopLevelData(z, pos - 1) # {} /\ pos \in TopLevelData(z, pos))
          => op.err = ErrDuplicateDataFile
    /\ (op.name = "addDataFile" /\ pre.dfs # <<>>)
          => /\ op.err = ErrDuplicateDataFile
             /\ dataFiles = pre.dfs

\* a signed container with its DataFile has refused a second document
C3_Witness ==
    /\ op = Op("addDataFile", ErrDuplicateDataFile)
    /\ Len(dataFiles) = 1 /\ signatures # <<>>

\* C4: a load that succeeds leaves exactly one DataFile and a non-empty
\* Signature Chain; a load that went through every entry without producing
\* a DataFile fails with MissingDataObject (whether or not there is a
\* signature), one that produced a DataFile and no signature fails with
\* MissingSignature.
C4_LoadPostconditions ==
    /\ (op.name = "load" /\ pc = "ready")
          => Len(dataFiles) = 1 /\ signatures # <<>>
    /\ (op.name = "load" /\ pc \in {"ready", "failed"} /\ pos > Len(z))
          => /\ dataFiles = <<>> => (pc = "failed" /\ op.err = ErrMissingData)
             /\ (dataFiles # <<>> /\ signatures = <<>>)
                   => (pc = "failed" /\ op.err = ErrMissingSignature)

\* neither a DataFile nor a signature: the data-object check speaks first
C4_Witness ==
    /\ op = Op("load", ErrMissingData) /\ pc = "failed"
    /\ pos > Len(z) /\ signatures = <<>>

\* C5: sign with a profile other than the timestamp-token profile fails
\* with UnsupportedProfile and leaves the Signature Chain and the Metadata
\* Store as they were.
C5_ProfileGate ==
    (op.name = "sign" /\ op.arg # ASIC_TST_PROFILE)
        => /\ op.err = ErrProfile
           /\ signatures = pre.sigs
           /\ metadata = pre.md

C5_Witness ==
    /\ op = SignOp(XADES_LTA_PROFILE, ErrProfile)
    /\ signatures # <<>> /\ metadata # <<>>

IsNumbered(name, Format(_), n) == \E k \in 1..n : name = Format(k)

\* the smallest k >= 1 whose formatted name is not in taken
LeastFree(Format(_), taken) ==
    CHOOSE k \in 1..(Cardinality(taken) + 1) :
        /\ Format(k) \notin taken
        /\ \A j \in 1..(k - 1) : Format(j) \in taken

Heads(md) == {i \in 1..Len(md) : md[i].name = MANIFEST_NAME}

\* C6: after a successful sign on a non-empty chain the store has grown by
\* two entries: the new head META-INF/ASiCArchiveManifest.xml, second to
\* last and the only entry of that name, and a new timestampNNN.tst, last;
\* every entry that was named META-INF/ASiCArchiveManifest.xml before the
\* call now has a numbered name ASiCArchiveManifestNNN.xml and root = true.
C6_ChainGrowth ==
    SignedCaseB =>
        LET n == Len(metadata) IN
        /\ n = Len(pre.md) + 2
        /\ Heads(metadata) = {n - 1}
        /\ IsNumbered(metadata[n].name, TstNameFormat, n)
        /\ metadata[n].name \notin Names(pre.md)
        /\ \A i \in Heads(pre.md) :
              /\ IsNumbered(metadata[i].name, MfsNameFormat, n)
              /\ metadata[i].root = TRUE

\* the call found a head manifest to freeze
C6_Witness == SignedCaseB /\ Heads(pre.md) # {}

\* the names in the store when entry i is renamed: the entries before it
\* already have their new names
NamesAtRename(i) ==
    {metadata[j].name : j \in 1..(i - 1)} \cup {pre.md[j].name : j \in i..Len(pre.md)}

\* C7: in Case B the timestamp entry is named timestampNNN.tst with NNN the
\* smallest integer >= 1 whose name is not in the store, a renamed head is
\* named ASiCArchiveManifestNNN.xml with NNN the smallest integer >= 1 whose
\* name is not in the store when it is renamed, and neither name is that of
\* an entry already in the store.
C7_SmallestUnusedNames ==
    SignedCaseB =>
        /\ metadata[Len(metadata)].name
              = TstNameFormat(LeastFree(TstNameFormat, Names(pre.md)))
        /\ metadata[Len(metadata)].name \notin Names(pre.md)
        /\ \A i \in Heads(pre.md) :
              /\ metadata[i].name
                    = MfsNameFormat(LeastFree(MfsNameFormat, NamesAtRename(i)))
              /\ metadata[i].name \notin NamesAtRename(i)

\* both probes had to step over a name that was taken
C7_Witness ==
    /\ SignedCaseB
    /\ TstNameFormat(1) \in Names(pre.md)
    /\ MfsNameFormat(1) \in Names(pre.md)
    /\ Heads(pre.md) # {}

\* C8: the manifest built in Case B has its SigReference on the new
\* timestamp entry, then a DataObjectReference for the DataFile without
\* Rootfile, then one for each entry that was in the store, in store order,
\* with the entry's name after renaming (as a URI path), its media type,
\* its root flag and the digest of its content; it references neither
\* itself nor the new token, and the contents it digests are unchanged.
C8_ManifestReferences ==
    SignedCaseB =>
        LET n == Len(metadata)
            doc == metadata[n - 1].data
            file == dataFiles[1]
        IN /\ doc.k = "mfs"
           /\ doc.sig = [uri |-> metadata[n].name, mime |-> TST_MIME]
           /\ Len(doc.refs) = 1 + Len(pre.md)
           /\ doc.refs[1] = [uri |-> toUriPath(file.name), mime |-> file.mime,
                             root |-> FALSE, digest |-> Digest(file.data)]
           /\ \A i \in 1..Len(pre.md) :
                 /\ doc.refs[i + 1] = [uri |-> toUriPath(metadata[i].name),
                                       mime |-> metadata[i].mime,
                                       root |-> metadata[i].root,
                                       digest |-> Digest(metadata[i].data)]
                 /\ metadata[i].data = pre.md[i].data
                 /\ metadata[i].mime = pre.md[i].mime
           /\ \A i \in 2..Len(doc.refs) :
                 doc.refs[i].uri \notin {MANIFEST_NAME, metadata[n].name}

\* the manifest references a head frozen by this call next to other entries
C8_Witness ==
    /\ SignedCaseB
    /\ Heads(pre.md) # {}
    /\ Len(pre.md) >= 3
    /\ dataFiles[1].name = "a b.txt"

\* C9: save changes nothing in the container; with an empty chain it
\* writes nothing and succeeds, with a chain whose first signature is not a
\* timestamp token it fails with UnsupportedProfile having written nothing,
\* otherwise it writes each entry once, in store order, under its name and
\* with its content.
C9_Save ==
    op.name = "save" =>
        /\ Snapshot = pre
        /\ IF signatures = <<>>
           THEN op.err = "" /\ written = <<>>
           ELSE IF Profile(Head(signatures)) # ASIC_TST_PROFILE
           THEN op.err = ErrProfile /\ written = <<>>
           ELSE /\ op.err = ""
                /\ Len(written) = Len(metadata)
                /\ \A i \in 1..Len(metadata) :
                      written[i] = [name |-> metadata[i].name,
                                    body |-> metadata[i].data]

\* the oldest signature is XAdES, the newest a timestamp token, and the
\* store is not empty: save refuses and writes nothing
C9_Witness ==
    /\ op = Op("save", ErrProfile)
    /\ metadata # <<>>
    /\ Profile(signatures[Len(signatures)]) = ASIC_TST_PROFILE

FirstRoundTrip == op.name = "load" /\ src.valid /\ src.fresh /\ Len(src.sigs) = 1

\* C10: a fresh container with one data file, signed once, saved and
\* loaded again: the load does not fail, and the loaded container has a
\* chain of length 1, the original DataFile, and a store made of the single
\* entry META-INF/timestamp.tst with the token media type and the same
\* token bytes.
C10_RoundTripOnce ==
    FirstRoundTrip =>
        /\ pc \in {"loading", "ready"}
        /\ pc = "ready" =>
              /\ Len(signatures) = 1
              /\ Len(dataFiles) = 1
              /\ dataFiles[1].name = src.dfs[1].name
              /\ dataFiles[1].data = src.dfs[1].data
              /\ metadata = <<[name |-> TST_NAME, mime |-> TST_MIME,
                               data |-> src.md[1].data, root |-> FALSE]>>
              /\ metadata[1].data = signatures[1].token

C10_Witness == FirstRoundTrip /\ pc = "ready"

MetaInfOther(name) ==
    /\ name # "mimetype" /\ ~SignatureEntry(name)
    /\ starts_with(name, "META-INF/")

\* C11: an entry under META-INF/ that is not a signature entry point is
\* skipped, in a subdirectory of META-INF or not, and the container is left
\* as it was; any other entry with a directory component stops the load
\* with UnsupportedSubfolder, whether or not a DataFile is already set.
C11_ClassificationOrder ==
    [][InLoop =>
         /\ MetaInfOther(Cur.name)
               => /\ pc' = "loading" /\ pos' = pos + 1
                  /\ UNCHANGED <<dataFiles, signatures, metadata>>
         /\ (DataEntry(Cur.name) /\ InSubfolder(Cur.name))
               => /\ pc' = "failed" /\ op' = Op("load", ErrSubfolder)
                  /\ UNCHANGED <<dataFiles, signatures, metadata>>]_vars

\* a DataFile is set, an entry in a subdirectory of META-INF was skipped,
\* and the load stopped on an entry in another directory
C11_Witness ==
    /\ op = Op("load", ErrSubfolder) /\ pc = "failed"
    /\ dataFiles # <<>>
    /\ \E i \in 1..(pos - 1) :
          MetaInfOther(z[i].name) /\ InSubfolder(z[i].name)

\* ------------------------------------------------ isContainerSimpleFormat
MIMETYPE_ASIC_E == "application/vnd.etsi.asic-e+zip"

Extensions == {"asice", "sce", "bdoc", "asics", "scs", "zip"}

ProbePool ==
    { Entry("mimetype", Text(MIMETYPE_ASIC_S)),
      Entry("mimetype", Text(MIMETYPE_ASIC_E)),
      Entry("a.txt", Bin(1)),
      Entry(TST_NAME, Tok(1)) }

ProbeArchives ==
    UNION { {zz \in [1..n -> ProbePool] : DistinctNames(zz)} : n \in 0..MaxProbeEntries }

\* ASiContainer::readMimetype: the content of the mimetype entry
readMimetype(zz) == ZExtract(zz, "mimetype").s

\* lines 254-273.  The result is the set of outcomes the call can have:
\* list.front() on an empty list (line 266) is undefined behaviour, it can
\* compare equal or not, or end the process.
isContainerSimpleFormat(ext, isZip, zz) ==
    IF ext \in {"asice", "sce", "bdoc"} THEN {"false"}
    ELSE IF ext \in {"asics", "scs"} THEN {"true"}
    ELSE IF ~isZip THEN {"false"}
    ELSE IF zz = <<>> THEN {"true", "false", "crash"}
    ELSE IF zz[1].name = "mimetype" /\ readMimetype(zz) = MIMETYPE_ASIC_S
         THEN {"true"}
         ELSE {"false"}

\* the files isContainerSimpleFormat is called on: any extension, a file
\* that is not a ZIP or a ZIP with up to MaxProbeEntries entries
DetectInit ==
    /\ pc = "none"
    /\ pos = 0
    /\ dataFiles = <<>>
    /\ signatures = <<>>
    /\ metadata = <<>>
    /\ op = Op("none", "")
    /\ pre = NoContainer
    /\ written = <<>>
    /\ src = NoSource
    /\ fresh = FALSE
    /\ \E ext \in Extensions, isZip \in BOOLEAN :
          /\ probe = [ext |-> ext, zip |-> isZip, result |-> "pending"]
          /\ IF isZip THEN z \in ProbeArchives ELSE z = <<>>

Detect ==
    /\ probe.result = "pending"
    /\ \E r \in isContainerSimpleFormat(probe.ext, probe.zip, z) :
          probe' = [probe EXCEPT !.result = r]
    /\ UNCHANGED <<pc, z, pos, dataFiles, signatures, metadata, op, pre,
                   written, src, fresh>>

DetectNext == Detect

DetectSpec == DetectInit /\ [][DetectNext]_vars

\* C12: asice/sce/bdoc give false and asics/scs give true whatever the file
\* holds; for any other path the result is true exactly when the file is a
\* ZIP whose first entry is mimetype with the ASiC-S media type, and false
\* for every other input: no call ends otherwise.
C12_Detector ==
    probe.result \notin {"none", "pending"} =>
        IF probe.ext \in {"asice", "sce", "bdoc"} THEN probe.result = "false"
        ELSE IF probe.ext \in {"asics", "scs"} THEN probe.result = "true"
        ELSE IF /\ probe.zip /\ z # <<>>
                /\ z[1].name = "mimetype"
                /\ z[1].body = Text(MIMETYPE_ASIC_S)
             THEN probe.result = "true"
             ELSE probe.result = "false"

\* C13: when the load fails with the duplicate-signature-entry-point error
\* the Signature Chain holds no signature.
C13_ChainEmptyOnDuplicate ==
    (op.name = "load" /\ pc = "failed" /\ op.err = ErrDuplicateSignature)
        => signatures = <<>>

Signed == op.name = "sign" /\ op.err = ""

\* C14: a successful sign appends one signature to the chain and one (first
\* signature) or two (later signatures) entries to the store; the entries
\* that were in the store keep their position, content and media type, and
\* only those named META-INF/ASiCArchiveManifest.xml change name and root
\* flag.
C14_AppendOnly ==
    Signed =>
        /\ Len(signatures) = Len(pre.sigs) + 1
        /\ SubSeq(signatures, 1, Len(pre.sigs)) = pre.sigs
        /\ Len(metadata) = Len(pre.md) + (IF pre.sigs = <<>> THEN 1 ELSE 2)
        /\ \A i \in 1..Len(pre.md) :
              /\ metadata[i].data = pre.md[i].data
              /\ metadata[i].mime = pre.md[i].mime
              /\ pre.md[i].name # MANIFEST_NAME => metadata[i] = pre.md[i]

\* the store held a head, an entry frozen earlier and unflagged entries
C14_Witness ==
    /\ Signed
    /\ Heads(pre.md) # {}
    /\ \E i \in 1..Len(pre.md) : pre.md[i].root
    /\ \E i \in 1..Len(pre.md) : ~pre.md[i].root /\ pre.md[i].name # MANIFEST_NAME

RootRefs(doc) == {fromUriPath(doc.refs[r].uri) : r \in {q \in 1..Len(doc.refs) : doc.refs[q].root}}

Loaded == op.name = "load" /\ pc \in {"loading", "ready"}

\* C15: in a loaded container the signature of every manifest referenced
\* with Rootfile=true precedes the signature of the manifest referencing
\* it; every manifest entry of the store is immediately followed by the
\* token entry its SigReference names, and the pairs of the manifests it
\* references with Rootfile=true come before its own pair.
C15_NestedBeforeEnclosing ==
    Loaded =>
        /\ \A p \in 1..Len(signatures) :
              (signatures[p].type = "TST" /\ signatures[p].file # "")
                 => \A name \in RootRefs(ZExtract(z, signatures[p].file)) :
                       \E q \in 1..(p - 1) : signatures[q].file = name
        /\ \A i \in 1..Len(metadata) :
              metadata[i].data.k = "mfs"
                 => /\ i < Len(metadata)
                    /\ metadata[i + 1].name = fromUriPath(metadata[i].data.sig.uri)
                    /\ \A name \in RootRefs(metadata[i].data) :
                          \E j \in 1..(i - 2) :
                             /\ metadata[j].name = name
                             /\ metadata[j].data.k = "mfs"

\* a chain with a nested manifest has been loaded
C15_Witness ==
    /\ Loaded /\ pc = "ready"
    /\ \E i \in 1..Len(metadata) :
          metadata[i].data.k = "mfs" /\ RootRefs(metadata[i].data) # {}

NamesOf(md) == [i \in 1..Len(md) |-> md[i].name]
ContentsOf(md) == [i \in 1..Len(md) |-> md[i].data]

\* C16: a fresh container signed k times, saved and loaded again has a
\* chain of length k and a store with the names and contents, in the same
\* order, that the container had in memory when it was saved.
C16_RoundTripChain ==
    (op.name = "load" /\ src.valid /\ src.fresh /\ src.sigs # <<>>) =>
        /\ pc \in {"loading", "ready"}
        /\ pc = "ready" =>
              /\ Len(signatures) = Len(src.sigs)
              /\ NamesOf(metadata) = NamesOf(src.md)
              /\ ContentsOf(metadata) = ContentsOf(src.md)

\* C17: the names of the store entries are pairwise distinct in every state.
C17_DistinctNames ==
    \A i, j \in 1..Len(metadata) : i # j => metadata[i].name # metadata[j].name

\* C18: the load returns, with a container or with an error, on every
\* archive: it is never caught in the resolution of a manifest.
C18_LoadTerminates == pc # "diverged"

\* C19: a save that directly follows a successful sign does not fail with
\* UnsupportedProfile and writes the entries the sign added.
C19_SaveAfterSign ==
    [][(Signed /\ pc = "ready" /\ op'.name = "save")
          => /\ op'.err # ErrProfile
             /\ Len(written') = Len(metadata)
             /\ \A i \in (Len(pre.md) + 1)..Len(metadata) :
                   written'[i] = Entry(metadata[i].name, metadata[i].data)]_vars

IsFrozenName(name) == \E k \in 1..(Len(metadata) + 1) : name = MfsNameFormat(k)

\* C20: in the manifest built by a Case B sign a DataObjectReference has
\* Rootfile=true exactly when it refers to a frozen manifest entry
\* META-INF/ASiCArchiveManifestNNN.xml, also when the container was saved
\* and loaded before the sign.
C20_RootfileIffFrozen ==
    SignedCaseB =>
        LET doc == metadata[Len(metadata) - 1].data IN
        \A i \in 1..Len(doc.refs) :
            doc.refs[i].root <=> IsFrozenName(fromUriPath(doc.refs[i].uri))

Next ==
    \/ Create
    \/ Open
    \/ LoadMimetype
    \/ LoadTimestamp
    \/ LoadSignaturesXml
    \/ LoadManifest
    \/ LoadMetaInfOther
    \/ LoadSubfolder
    \/ LoadDuplicateData
    \/ LoadData
    \/ LoadFinish
    \/ AddDataFile
    \/ Sign
    \/ Save
    \/ Reopen

Spec == Init /\ [][Next]_vars
=============================================================================
